---- MODULE Spec2Model ----
(***************************************************************************)
(* The origami canvas animation of src/animation.js (class                 *)
(* OrigamiAnimation) and the page script of src/unnamed/part_000 (forms,   *)
(* keyboard navigation, scroll reveal) as a state machine.                 *)
(*                                                                         *)
(* Numbers.  JavaScript numbers are doubles; the model keeps them as       *)
(* fixed-point integers:                                                   *)
(*   lengths (x, y, baseX, baseY, size, amplitude, width, height, mouse)   *)
(*       in 1/PxUnits of a pixel,                                          *)
(*   angles of sin/cos, phaseX/Y, foldState, foldSpeed in milliradians,    *)
(*   rotation and rotationSpeed in 1/10000 rad,                            *)
(*   speedX/Y and opacity in thousandths,                                  *)
(*   a sine value in thousandths (Sin1000).                                *)
(* Math.random() is a linear congruential generator whose seed is the      *)
(* input of every element-set creation.                                    *)
(***************************************************************************)
EXTENDS Integers, Sequences, FiniteSets

VARIABLES
    squares,      \* this.squares: the element set, a sequence of records
    time,         \* this.time: the frame counter
    mouseX,       \* this.mouseX
    mouseY,       \* this.mouseY
    width,        \* this.width
    height,       \* this.height
    isRunning,    \* this.isRunning
    hidden,       \* document.hidden
    pending,      \* number of requestAnimationFrame callbacks queued
    destroyed,    \* history: destroy() has been called
    emailValue,     \* emailInput.value of the signup form
    borderColor,    \* emailInput.style.borderColor
    formErrors,     \* the .form-error elements of emailInput.parentElement
    inputListeners, \* the 'input' listeners showFormError has registered
    cleared,        \* history: listeners the last 'input' event ran
    signupBtn,      \* the signup form's submit button: disabled, textContent
    signupContent,  \* the signup form's content: "form" or "success"
    signupCalls,    \* the signup form's simulateApiCall promises pending
    pollBtn,        \* the poll form's submit button
    pollContent,    \* the poll form's content
    pollCalls,      \* the poll form's simulateApiCall promises pending
    pollEmail,      \* value of the poll form's email field
    checked,        \* the poll options whose checkbox is checked
    lastAlert,      \* message of the last alert()
    optionCount,    \* options.length of the poll's option group
    focus,          \* index of the option that has the focus
    trail,          \* history: the last two key presses on the options
    observed,       \* targets the IntersectionObserver observes
    animateIn,      \* elements with the class animate-in
    reported        \* history: what the observer has reported of an element

animVars == <<squares, time, mouseX, mouseY, width, height, isRunning, hidden,
              pending, destroyed>>

signupVars == <<emailValue, borderColor, formErrors, inputListeners, cleared,
                signupBtn, signupContent, signupCalls>>

pollVars == <<pollBtn, pollContent, pollCalls, pollEmail, checked, lastAlert,
              optionCount>>

keyVars == <<focus, trail>>

revealVars == <<observed, animateIn, reported>>

pageVars == <<signupVars, pollVars, keyVars, revealVars>>

vars == <<animVars, pageVars>>

(***************************************************************************)
(* Bounds of the model.                                                    *)
(***************************************************************************)
MaxTime == 2
MaxPending == 2
MaxRunTime == 410
MaxMoveTime == 1
MaxErrors == 2
MaxOptions == 3
NumElements == 5

(***************************************************************************)
(* Program constants.                                                      *)
(***************************************************************************)
\* line 59
numSquares == 40
\* line 225: the interaction radius, in pixels
Radius == 150
\* lines 202-203: the drift amplitude is 0.1 px, and the model counts lengths
\* in that unit: PxUnits of them to the pixel
PxUnits == 10
\* Math.PI and 2 * Math.PI (line 216), in milliradians
Pi == 3142
TwoPi == 6283

colorKeys == <<"pink", "green", "yellow", "blue", "purple", "orange">>

\* Surface sizes (rect.width, rect.height) the host can report, in pixels.
Sizes == {<<400, 300>>, <<800, 600>>}

\* Seeds of Math.random() the model draws an element set from.
Seeds == {1, 2}

(***************************************************************************)
(* Arithmetic helpers.                                                     *)
(***************************************************************************)
\* a / b rounded to the nearest integer (b > 0)
RoundDiv(a, b) == (2 * a + b) \div (2 * b)

\* Math.sqrt on the grid: the largest d with d * d <= n, by Newton's
\* iteration downwards from a guess g >= sqrt(n)
RECURSIVE SqrtFrom(_, _)
SqrtFrom(n, g) ==
    IF g = 0 THEN 0
    ELSE LET g1 == (g + n \div g) \div 2
         IN  IF g1 >= g THEN g ELSE SqrtFrom(n, g1)

Abs(a) == IF a < 0 THEN 0 - a ELSE a

\* Math.sin of an angle in [0, Pi] milliradians, in thousandths
\* (Bhaskara's rational approximation)
SinHalf(a) ==
    LET p == a * (Pi - a)
    IN  (16 * p) \div ((5 * Pi * Pi - 4 * p) \div 1000)

\* Math.sin of a non-negative angle in milliradians, in thousandths
Sin1000(a) ==
    LET r == a % TwoPi
    IN  IF r <= Pi THEN SinHalf(r) ELSE 0 - SinHalf(r - Pi)

\* Math.cos of a non-negative angle in milliradians, in thousandths
Cos1000(a) == Sin1000(a + RoundDiv(Pi, 2))

(***************************************************************************)
(* Math.random(): one step of the generator, and the draw r in [0, 1) it   *)
(* yields scaled to [0, n): floor(r * n).                                  *)
(***************************************************************************)
NextRand(s) == (s * 25173 + 13849) % 65536

Scaled(s, n) == (s * n) \div 65536

(***************************************************************************)
(* createSquares (lines 57-87).  The eighteen Math.random() calls of one   *)
(* element are drawn in the order of the object literal.                   *)
(***************************************************************************)
\* the element built from generator state s (the state before its first draw)
NewSquare(s, w, h) ==
    LET r1  == NextRand(s)       r2  == NextRand(r1)
        r3  == NextRand(r2)      r4  == NextRand(r3)
        r5  == NextRand(r4)      r6  == NextRand(r5)
        r7  == NextRand(r6)      r8  == NextRand(r7)
        r9  == NextRand(r8)      r10 == NextRand(r9)
        r11 == NextRand(r10)     r12 == NextRand(r11)
        r13 == NextRand(r12)     r14 == NextRand(r13)
        r15 == NextRand(r14)     r16 == NextRand(r15)
        r17 == NextRand(r16)     r18 == NextRand(r17)
    IN  [ x             |-> Scaled(r1, w),
          y             |-> Scaled(r2, h),
          size          |-> 20 * PxUnits + Scaled(r3, 60 * PxUnits),
          rotation      |-> Scaled(r4, TwoPi) * 10,
          rotationSpeed |-> Scaled(r5, 200) - 100,
          color         |-> colorKeys[Scaled(r6, Len(colorKeys)) + 1],
          opacity       |-> 100 + Scaled(r7, 400),
          phaseX        |-> Scaled(r8, TwoPi),
          phaseY        |-> Scaled(r9, TwoPi),
          speedX        |-> 300 + Scaled(r10, 500),
          speedY        |-> 300 + Scaled(r11, 500),
          amplitudeX    |-> 20 * PxUnits + Scaled(r12, 40 * PxUnits),
          amplitudeY    |-> 20 * PxUnits + Scaled(r13, 40 * PxUnits),
          baseX         |-> Scaled(r14, w),
          baseY         |-> Scaled(r15, h),
          foldState     |-> Scaled(r16, 1000),
          foldSpeed     |-> 5 + Scaled(r17, 10),
          layer         |-> Scaled(r18, 3) ]

\* the generator state after the eighteen draws of one element
RECURSIVE Advance(_, _)
Advance(s, n) == IF n = 0 THEN s ELSE Advance(NextRand(s), n - 1)

\* the for loop of lines 62-83: the elements in creation order
RECURSIVE PushSquares(_, _, _, _, _)
PushSquares(i, s, w, h, acc) ==
    IF i >= numSquares THEN acc
    ELSE PushSquares(i + 1, Advance(s, 18), w, h, Append(acc, NewSquare(s, w, h)))

\* Array.prototype.sort with (a, b) => a.layer - b.layer: a stable sort
RECURSIVE InsertByLayer(_, _)
InsertByLayer(sorted, sq) ==
    IF sorted = <<>> THEN <<sq>>
    ELSE LET n == Len(sorted)
         IN  IF sorted[n].layer - sq.layer <= 0 THEN Append(sorted, sq)
             ELSE Append(InsertByLayer(SubSeq(sorted, 1, n - 1), sq), sorted[n])

RECURSIVE SortFrom(_, _, _)
SortFrom(s, k, acc) ==
    IF k > Len(s) THEN acc ELSE SortFrom(s, k + 1, InsertByLayer(acc, s[k]))

SortByLayer(s) == SortFrom(s, 1, <<>>)

\* createSquares without the sort of line 86
createSquaresUnsorted(seed, w, h) == PushSquares(0, seed * 61, w, h, <<>>)

\* this.squares after createSquares() on a surface of w x h
createSquares(seed, w, h) == SortByLayer(PushSquares(0, seed * 61, w, h, <<>>))

\* createSquares for every seed and surface size of the model, computed once
Created ==
    [seed \in Seeds, size \in Sizes |->
        createSquares(seed, size[1] * PxUnits, size[2] * PxUnits)]

(***************************************************************************)
(* update (lines 193-231), for one element; i is forEach's index (from 0), *)
(* t the counter after this.time++.                                        *)
(***************************************************************************)
\* lines 198-199: the oscillation offsets
OscX(sq, t) ==
    RoundDiv(Sin1000((t * sq.speedX) \div 1000 + sq.phaseX) * sq.amplitudeX, 1000)

OscY(sq, t) ==
    RoundDiv(Cos1000((t * sq.speedY) \div 1000 + sq.phaseY) * sq.amplitudeY, 1000)

\* lines 202-203: the drift terms, sin / cos of (time * 0.0003 + i) times 0.1
DriftX(t, i) == RoundDiv(Sin1000((3 * t) \div 10 + 1000 * i) * PxUnits, 10000)

DriftY(t, i) == RoundDiv(Cos1000((3 * t) \div 10 + 1000 * i) * PxUnits, 10000)

\* lines 206-207 (and 208-209): the two wrap tests, in the code's order
Wrap(b, size, dim) ==
    LET b1 == IF b < 0 - size THEN dim + size ELSE b
    IN  IF b1 > dim + size THEN 0 - size ELSE b1

\* lines 215-218
NextFold(sq) ==
    LET f == sq.foldState + sq.foldSpeed
    IN  IF f > TwoPi THEN 0 ELSE f

\* line 223
Dist(dx, dy) == SqrtFrom(dx * dx + dy * dy, Abs(dx) + Abs(dy))

\* line 225 without the radius test
InRangeNoRadius(dist) == dist > 0

\* line 225
InRange(dist) == dist < Radius * PxUnits /\ dist > 0

\* lines 226-228: (d / dist) * force * 0.5 with force = (150 - dist) / 150
Push(d, dist) ==
    RoundDiv(d * (Radius * PxUnits - dist) * PxUnits, dist * Radius * PxUnits * 2)

\* update with line 212 writing rotationSpeed instead of rotation
updateSquareWritesSpeed(sq, i, t, mx, my, w, h) ==
    LET x    == sq.baseX + OscX(sq, t)
        y    == sq.baseY + OscY(sq, t)
        bx   == Wrap(sq.baseX + DriftX(t, i), sq.size, w)
        by   == Wrap(sq.baseY + DriftY(t, i), sq.size, h)
        dx   == mx - x
        dy   == my - y
        dist == Dist(dx, dy)
    IN  [sq EXCEPT
           !.x = x,
           !.y = y,
           !.rotationSpeed = sq.rotation + sq.rotationSpeed,
           !.foldState = NextFold(sq),
           !.baseX = IF InRange(dist) THEN bx - Push(dx, dist) ELSE bx,
           !.baseY = IF InRange(dist) THEN by - Push(dy, dist) ELSE by]

\* what JavaScript's 0 / 0 yields, and every sum or difference with it
NaN == 0 - 2000000000

\* update with line 225 testing dist < 150 only: at dist = 0 the quotients
\* dx / dist and dy / dist are 0 / 0
updateSquareNoZeroTest(sq, i, t, mx, my, w, h) ==
    LET x    == sq.baseX + OscX(sq, t)
        y    == sq.baseY + OscY(sq, t)
        bx   == Wrap(sq.baseX + DriftX(t, i), sq.size, w)
        by   == Wrap(sq.baseY + DriftY(t, i), sq.size, h)
        dx   == mx - x
        dy   == my - y
        dist == Dist(dx, dy)
    IN  [sq EXCEPT
           !.x = x,
           !.y = y,
           !.rotation = sq.rotation + sq.rotationSpeed,
           !.foldState = NextFold(sq),
           !.baseX = IF dist >= Radius * PxUnits THEN bx
                     ELSE IF dist = 0 THEN NaN ELSE bx - Push(dx, dist),
           !.baseY = IF dist >= Radius * PxUnits THEN by
                     ELSE IF dist = 0 THEN NaN ELSE by - Push(dy, dist)]

updateSquare(sq, i, t, mx, my, w, h) ==
    LET x    == sq.baseX + OscX(sq, t)
        y    == sq.baseY + OscY(sq, t)
        bx   == Wrap(sq.baseX + DriftX(t, i), sq.size, w)
        by   == Wrap(sq.baseY + DriftY(t, i), sq.size, h)
        dx   == mx - x
        dy   == my - y
        dist == Dist(dx, dy)
    IN  [sq EXCEPT
           !.x = x,
           !.y = y,
           !.rotation = sq.rotation + sq.rotationSpeed,
           !.foldState = NextFold(sq),
           !.baseX = IF InRange(dist) THEN bx - Push(dx, dist) ELSE bx,
           !.baseY = IF InRange(dist) THEN by - Push(dy, dist) ELSE by]

\* this.squares after update(), t being the incremented counter
update(sqs, t, mx, my, w, h) ==
    [i \in 1..Len(sqs) |-> updateSquare(sqs[i], i - 1, t, mx, my, w, h)]


(***************************************************************************)
(* The handlers.  draw() (lines 233-257) paints the canvas from the state  *)
(* and writes none of it, so a step of animate() is update() and the frame *)
(* request.                                                                *)
(***************************************************************************)
\* animate without the isRunning test of line 260
animateUnguarded(consumed) ==
    /\ time' = time + 1
    /\ squares' = update(squares, time + 1, mouseX, mouseY, width, height)
    /\ pending' = pending - consumed + 1

\* animate without the frame request of line 264
animateNoRequest(consumed) ==
    IF isRunning'
    THEN /\ time' = time + 1
         /\ squares' = update(squares, time + 1, mouseX, mouseY, width, height)
         /\ pending' = pending - consumed
    ELSE /\ pending' = pending - consumed
         /\ UNCHANGED <<time, squares>>

\* animate (lines 259-265); consumed is 1 when the call is a queued frame
\* callback being run, 0 when it is a direct call
animate(consumed) ==
    IF isRunning'
    THEN /\ time' = time + 1
         /\ squares' = update(squares, time + 1, mouseX, mouseY, width, height)
         /\ pending' = pending - consumed + 1
    ELSE /\ pending' = pending - consumed
         /\ UNCHANGED <<time, squares>>

\* the host runs one queued requestAnimationFrame callback (line 264).  The
\* callbacks queued for one display frame run one after the other; the model
\* also lets another handler run between two of them.
Frame ==
    /\ pending > 0
    /\ UNCHANGED <<isRunning, hidden, mouseX, mouseY, width, height, destroyed>>
    /\ animate(1)

\* a 'visibilitychange' listener that restarts the counter on resume
VisibilityChangeReset ==
    /\ hidden' = ~hidden
    /\ isRunning' = ~hidden'
    /\ UNCHANGED <<mouseX, mouseY, width, height, destroyed>>
    /\ IF isRunning'
       THEN /\ time' = 1
            /\ squares' = update(squares, 1, mouseX, mouseY, width, height)
            /\ pending' = pending + 1
       ELSE UNCHANGED <<time, squares, pending>>

\* the 'visibilitychange' listener (lines 102-105); document.hidden has flipped
VisibilityChange ==
    /\ hidden' = ~hidden
    /\ isRunning' = ~hidden'
    /\ UNCHANGED <<mouseX, mouseY, width, height, destroyed>>
    /\ IF isRunning' THEN animate(0) ELSE UNCHANGED <<time, squares, pending>>

\* a 'resize' listener that re-enters the loop as the constructor does
ResizeAndAnimate ==
    \E size \in Sizes, seed \in Seeds :
        /\ width' = size[1] * PxUnits
        /\ height' = size[2] * PxUnits
        /\ UNCHANGED <<mouseX, mouseY, isRunning, hidden, destroyed>>
        /\ IF isRunning
           THEN /\ time' = time + 1
                /\ squares' = update(Created[seed, size], time + 1, mouseX, mouseY,
                                     size[1] * PxUnits, size[2] * PxUnits)
                /\ pending' = pending + 1
           ELSE /\ squares' = Created[seed, size]
                /\ UNCHANGED <<time, pending>>

\* the 'resize' listener (lines 90-93): resize() then createSquares()
Resize ==
    \E size \in Sizes, seed \in Seeds :
        /\ width' = size[1] * PxUnits
        /\ height' = size[2] * PxUnits
        /\ squares' = Created[seed, size]
        /\ UNCHANGED <<time, mouseX, mouseY, isRunning, hidden, pending, destroyed>>

\* Pointer positions e.clientX - rect.left, e.clientY - rect.top the model
\* draws from: two opposite corners of the canvas, and the point where the
\* first element is displayed at the next tick.
MousePoints ==
    LET hover == <<squares[1].baseX + OscX(squares[1], time + 1),
                   squares[1].baseY + OscY(squares[1], time + 1)>>
    IN  { p \in {<<0, 0>>, <<width, height>>, hover} :
            /\ 0 <= p[1] /\ p[1] <= width
            /\ 0 <= p[2] /\ p[2] <= height }

\* the 'mousemove' listener (lines 95-99)
MouseMove ==
    \E p \in MousePoints :
        /\ mouseX' = p[1]
        /\ mouseY' = p[2]
        /\ UNCHANGED <<squares, time, width, height, isRunning, hidden, pending,
                       destroyed>>

\* destroy (lines 267-269)
Destroy ==
    /\ isRunning' = FALSE
    /\ destroyed' = TRUE
    /\ UNCHANGED <<squares, time, mouseX, mouseY, width, height, hidden, pending>>

(***************************************************************************)
(* The page script (src/unnamed/part_000): the signup form, the poll form,  *)
(* the error display of the email field, the keyboard navigation of the     *)
(* poll options and the scroll reveal.                                      *)
(*                                                                          *)
(* A field's value is a sequence of one-character strings.  The markup of   *)
(* the page is not part of the scripts: the buttons' labels, the number of  *)
(* poll options and of revealed elements are those of the model.            *)
(***************************************************************************)
\* submitBtn.textContent of the two forms in the page's markup
SignupText == "Join Waitlist"
PollText == "Submit Feedback"

\* the value formData.get and `email || null` yield for an empty field
Null == <<"null">>

\* values typed into the signup form's email field
EmailInputs ==
    { <<>>,
      <<" ">>,
      <<"a">>,
      <<"a", "@", "b">>,
      <<"a", "@", "b", ".", "c">>,
      <<" ", "a", "@", "b", ".", "c", " ">>,
      <<"a", " ", "@", "b", ".", "c">>,
      <<"@", "b", ".", "c">>,
      <<"a", "@", ".", "c">>,
      <<"a", "@", "b", ".">>,
      <<"a", "@", "b", "@", "c", ".", "d">>,
      <<"a", ".", "b", "@", "c">>,
      <<"a", "@", "b", ".", "c", ".", "d">> }

\* values typed into the poll form's optional email field
PollEmails == { <<>>, <<" ">>, <<"a", "@", "b", ".", "c">> }

\* \s of the pattern, and the white space String.prototype.trim removes
IsSpace(c) == c = " "

\* String.prototype.trim (line 78)
RECURSIVE TrimStart(_)
TrimStart(s) == IF s # <<>> /\ IsSpace(Head(s)) THEN TrimStart(Tail(s)) ELSE s

RECURSIVE TrimEnd(_)
TrimEnd(s) ==
    IF s # <<>> /\ IsSpace(s[Len(s)]) THEN TrimEnd(SubSeq(s, 1, Len(s) - 1)) ELSE s

trim(s) == TrimEnd(TrimStart(s))

\* the pattern /^[^\s@]+@[^\s@]+\.[^\s@]+$/ matched from position i: part is
\* the [^\s@]+ group being matched (1, 2 or 3), n the characters it has so far
RECURSIVE MatchFrom(_, _, _, _)
MatchFrom(s, i, part, n) ==
    IF i > Len(s) THEN part = 3 /\ n > 0
    ELSE \/ ~IsSpace(s[i]) /\ s[i] # "@" /\ MatchFrom(s, i + 1, part, n + 1)
         \/ part = 1 /\ n > 0 /\ s[i] = "@" /\ MatchFrom(s, i + 1, 2, 0)
         \/ part = 2 /\ n > 0 /\ s[i] = "." /\ MatchFrom(s, i + 1, 3, 0)

\* the pattern without its \.[^\s@]+ part
RECURSIVE MatchNoDot(_, _, _, _)
MatchNoDot(s, i, part, n) ==
    IF i > Len(s) THEN part = 2 /\ n > 0
    ELSE \/ ~IsSpace(s[i]) /\ s[i] # "@" /\ MatchNoDot(s, i + 1, part, n + 1)
         \/ part = 1 /\ n > 0 /\ s[i] = "@" /\ MatchNoDot(s, i + 1, 2, 0)

isValidEmailNoDot(email) == MatchNoDot(email, 1, 1, 0)

\* isValidEmail (lines 199-202)
isValidEmail(email) == MatchFrom(email, 1, 1, 0)

\* email || null (line 139)
OrNull(email) == IF email = <<>> THEN Null ELSE email

errorVars == <<formErrors, borderColor, inputListeners, cleared>>

\* the identity of the element document.createElement('p') returns: the
\* least number no registered listener holds
NewElement ==
    CHOOSE n \in 1..(MaxErrors + 1) :
        n \notin inputListeners /\ \A m \in 1..(n - 1) : m \in inputListeners

\* showFormError without the removal of lines 209-210
showFormErrorKeepsOld(message) ==
    /\ formErrors' = Append(formErrors, [id |-> NewElement, text |-> message])
    /\ borderColor' = "#f92672"
    /\ inputListeners' = inputListeners \cup {NewElement}
    /\ UNCHANGED cleared

\* showFormError(emailInput, message) (lines 207-231).  formErrors is the
\* .form-error children of input.parentElement in document order;
\* querySelector finds the first.  The listener of lines 227-230 is kept as
\* the element it removes.
showFormError(message) ==
    /\ formErrors' =
          Append(IF formErrors = <<>> THEN <<>> ELSE Tail(formErrors),
                 [id |-> NewElement, text |-> message])
    /\ borderColor' = "#f92672"
    /\ inputListeners' = inputListeners \cup {NewElement}
    /\ UNCHANGED cleared

\* the user edits the email field to v: the 'input' event runs every
\* listener registered by showFormError, each once (lines 227-230)
InputEvent(v) ==
    /\ signupContent = "form"
    /\ v # emailValue
    /\ emailValue' = v
    /\ borderColor' = IF inputListeners = {} THEN borderColor ELSE ""
    /\ formErrors' = SelectSeq(formErrors, LAMBDA e : e.id \notin inputListeners)
    /\ cleared' = Cardinality(inputListeners)
    /\ inputListeners' = {}
    /\ UNCHANGED <<signupBtn, signupContent, signupCalls>>
    /\ UNCHANGED <<animVars, pollVars, keyVars, revealVars>>

\* the signup form's 'submit' listener up to its await (lines 73-92).  A
\* form with a disabled submit button is not submitted, nor one whose
\* content showFormSuccess has replaced.
SubmitSignup ==
    /\ signupContent = "form"
    /\ ~signupBtn.disabled
    /\ LET email == trim(emailValue)
       IN  IF ~isValidEmail(email)
           THEN /\ showFormError("Please enter a valid email address")
                /\ UNCHANGED <<emailValue, signupBtn, signupContent, signupCalls>>
           ELSE /\ signupBtn' = [disabled |-> TRUE, textContent |-> "Joining..."]
                /\ signupCalls' =
                      Append(signupCalls,
                             [email |-> email, type |-> "waitlist",
                              originalText |-> signupBtn.textContent])
                /\ UNCHANGED <<emailValue, signupContent, errorVars>>
    /\ UNCHANGED <<animVars, pollVars, keyVars, revealVars>>

\* the listener after its await with the button restored in the try block
\* only
SettleSignupNoFinally(ok) ==
    /\ signupCalls # <<>>
    /\ signupCalls' = Tail(signupCalls)
    /\ IF ok
       THEN /\ signupContent' = "success"
            /\ emailValue' = <<>>
            /\ signupBtn' = [disabled |-> FALSE,
                             textContent |-> Head(signupCalls).originalText]
            /\ UNCHANGED errorVars
       ELSE /\ showFormError("Something went wrong. Please try again.")
            /\ UNCHANGED <<signupContent, emailValue, signupBtn>>
    /\ UNCHANGED <<animVars, pollVars, keyVars, revealVars>>

\* simulateApiCall settles (lines 257-271) and the listener runs on from its
\* await (lines 92-102): showFormSuccess (lines 236-251) replaces the form's
\* content, or the catch block shows the error; finally restores the button
SettleSignup(ok) ==
    /\ signupCalls # <<>>
    /\ signupCalls' = Tail(signupCalls)
    /\ signupBtn' = [disabled |-> FALSE,
                     textContent |-> Head(signupCalls).originalText]
    /\ IF ok
       THEN /\ signupContent' = "success"
            /\ emailValue' = <<>>
            /\ UNCHANGED errorVars
       ELSE /\ showFormError("Something went wrong. Please try again.")
            /\ UNCHANGED <<signupContent, emailValue>>
    /\ UNCHANGED <<animVars, pollVars, keyVars, revealVars>>

\* the user clicks the checkbox of option i
ClickOption(i) ==
    /\ pollContent = "form"
    /\ checked' = IF i \in checked THEN checked \ {i} ELSE checked \cup {i}
    /\ UNCHANGED <<pollBtn, pollContent, pollCalls, pollEmail, lastAlert, optionCount>>
    /\ UNCHANGED <<animVars, signupVars, keyVars, revealVars>>

\* the user edits the poll form's email field to v
InputPollEmail(v) ==
    /\ pollContent = "form"
    /\ v # pollEmail
    /\ pollEmail' = v
    /\ UNCHANGED <<pollBtn, pollContent, pollCalls, checked, lastAlert, optionCount>>
    /\ UNCHANGED <<animVars, signupVars, keyVars, revealVars>>

\* the poll form's 'submit' listener without the test of lines 125-128
SubmitPollUnchecked ==
    /\ pollContent = "form"
    /\ ~pollBtn.disabled
    /\ pollBtn' = [disabled |-> TRUE, textContent |-> "Submitting..."]
    /\ pollCalls' =
          Append(pollCalls,
                 [features |-> checked, email |-> OrNull(pollEmail),
                  type |-> "poll", originalText |-> pollBtn.textContent])
    /\ UNCHANGED <<pollContent, pollEmail, checked, lastAlert, optionCount>>
    /\ UNCHANGED <<animVars, signupVars, keyVars, revealVars>>

\* the poll form's 'submit' listener up to its await (lines 114-141);
\* formData.getAll('features') is the checked options
SubmitPoll ==
    /\ pollContent = "form"
    /\ ~pollBtn.disabled
    /\ LET features == checked
           email    == pollEmail
       IN  IF Cardinality(features) = 0
           THEN /\ lastAlert' = "Please select at least one feature before submitting."
                /\ UNCHANGED <<pollBtn, pollCalls>>
           ELSE /\ pollBtn' = [disabled |-> TRUE, textContent |-> "Submitting..."]
                /\ pollCalls' =
                      Append(pollCalls,
                             [features |-> features, email |-> OrNull(email),
                              type |-> "poll",
                              originalText |-> pollBtn.textContent])
                /\ UNCHANGED lastAlert
    /\ UNCHANGED <<pollContent, pollEmail, checked, optionCount>>
    /\ UNCHANGED <<animVars, signupVars, keyVars, revealVars>>

\* simulateApiCall settles and the listener runs on from its await (lines
\* 137-150)
SettlePoll(ok) ==
    /\ pollCalls # <<>>
    /\ pollCalls' = Tail(pollCalls)
    /\ pollBtn' = [disabled |-> FALSE,
                   textContent |-> Head(pollCalls).originalText]
    /\ IF ok
       THEN /\ pollContent' = "success"
            /\ UNCHANGED lastAlert
       ELSE /\ lastAlert' = "Something went wrong. Please try again."
            /\ UNCHANGED pollContent
    /\ UNCHANGED <<pollEmail, checked, optionCount>>
    /\ UNCHANGED <<animVars, signupVars, keyVars, revealVars>>

(***************************************************************************)
(* Keyboard navigation of the poll options (lines 276-306).  focus is the  *)
(* index of the option that has the focus, NoFocus when none has.          *)
(***************************************************************************)
NoFocus == 0 - 1

Keys == {" ", "Enter", "ArrowDown", "ArrowUp", "Tab"}

\* JavaScript's %: the remainder has the sign of the dividend
JsRem(a, n) == IF a >= 0 THEN a % n ELSE 0 - ((0 - a) % n)

\* line 296 without "+ options.length"
ArrowUpIndexNoWrap(index, length) == JsRem(index - 1, length)

\* nextIndex of 'ArrowDown' (line 293) and of 'ArrowUp' (line 296)
ArrowDownIndex(index, length) == JsRem(index + 1, length)

ArrowUpIndex(index, length) == JsRem(index - 1 + length, length)

\* the last two of a sequence
LastTwo(s) == IF Len(s) <= 2 THEN s ELSE SubSeq(s, Len(s) - 1, Len(s))

\* the 'keydown' listener of the focused option (lines 282-304).  When
\* options[nextIndex] is undefined, .focus() throws and the focus stays.
KeyDown(key) ==
    /\ pollContent = "form"
    /\ focus # NoFocus
    /\ LET index == focus
           nextIndex ==
               CASE key = "ArrowDown" -> ArrowDownIndex(index, optionCount)
                 [] key = "ArrowUp"   -> ArrowUpIndex(index, optionCount)
                 [] OTHER             -> index
       IN  /\ checked' =
                 IF key = " " \/ key = "Enter"
                 THEN IF index \in checked THEN checked \ {index}
                                           ELSE checked \cup {index}
                 ELSE checked
           /\ focus' = IF nextIndex \in 0..(optionCount - 1) THEN nextIndex
                                                             ELSE index
           /\ trail' = LastTwo(Append(trail, [key |-> key, index |-> index,
                                              checked |-> checked]))
    /\ UNCHANGED <<pollBtn, pollContent, pollCalls, pollEmail, lastAlert,
                   optionCount>>
    /\ UNCHANGED <<animVars, signupVars, revealVars>>

\* the user moves the focus to option i with the pointer or the Tab key
FocusOption(i) ==
    /\ pollContent = "form"
    /\ i # focus
    /\ focus' = i
    /\ trail' = <<>>
    /\ UNCHANGED <<animVars, signupVars, pollVars, revealVars>>

(***************************************************************************)
(* Scroll reveal (lines 158-194).  An element is shown when it has the     *)
(* class animate-in (opacity 1 !important over the inline opacity 0).      *)
(***************************************************************************)
Elements == 1..NumElements

\* the IntersectionObserver callback without the unobserve of line 168
ObserverCallbackKeepsObserving(entries) ==
    /\ DOMAIN entries # {}
    /\ DOMAIN entries \subseteq observed
    /\ animateIn' = animateIn \cup {e \in DOMAIN entries : entries[e]}
    /\ UNCHANGED observed
    /\ reported' =
          [e \in Elements |->
              IF e \notin DOMAIN entries THEN reported[e]
              ELSE IF entries[e] \/ reported[e] = "intersecting"
                   THEN "intersecting" ELSE "away"]
    /\ UNCHANGED <<animVars, signupVars, pollVars, keyVars>>

\* the IntersectionObserver callback (lines 164-171); entries gives
\* isIntersecting for each target reported, all of them observed targets.
\* reported is the history of the reports about each element.
ObserverCallback(entries) ==
    /\ DOMAIN entries # {}
    /\ DOMAIN entries \subseteq observed
    /\ animateIn' = animateIn \cup {e \in DOMAIN entries : entries[e]}
    /\ observed' = observed \ {e \in DOMAIN entries : entries[e]}
    /\ reported' =
          [e \in Elements |->
              IF e \notin DOMAIN entries THEN reported[e]
              ELSE IF entries[e] \/ reported[e] = "intersecting"
                   THEN "intersecting" ELSE "away"]
    /\ UNCHANGED <<animVars, signupVars, pollVars, keyVars>>

(***************************************************************************)
(* The page when the DOMContentLoaded listener (lines 6-13) and the        *)
(* script's top level (lines 276-306) have run, with n poll options.       *)
(***************************************************************************)
PageLoaded(n) ==
    /\ emailValue = <<>>
    /\ borderColor = ""
    /\ formErrors = <<>>
    /\ inputListeners = {}
    /\ cleared = 0
    /\ signupBtn = [disabled |-> FALSE, textContent |-> SignupText]
    /\ signupContent = "form"
    /\ signupCalls = <<>>
    /\ pollBtn = [disabled |-> FALSE, textContent |-> PollText]
    /\ pollContent = "form"
    /\ pollCalls = <<>>
    /\ pollEmail = <<>>
    /\ checked = {}
    /\ lastAlert = ""
    /\ optionCount = n
    /\ focus = NoFocus
    /\ trail = <<>>
    /\ observed = Elements
    /\ animateIn = {}
    /\ reported = [e \in Elements |-> "never"]

(***************************************************************************)
(* The state when the constructor (lines 11-35) returns: init() has        *)
(* measured the surface and created the elements, and the first animate()  *)
(* has run update() once and queued one frame request.  The page may be    *)
(* loaded in a background tab (document.hidden).                           *)
(***************************************************************************)
Constructed(size, seed) ==
    /\ width = size[1] * PxUnits
    /\ height = size[2] * PxUnits
    /\ mouseX = 0
    /\ mouseY = 0
    /\ time = 1
    /\ squares = update(Created[seed, size], 1, 0, 0,
                        size[1] * PxUnits, size[2] * PxUnits)
    /\ isRunning = TRUE
    /\ pending = 1
    /\ destroyed = FALSE

Init ==
    \E size \in Sizes, seed \in Seeds :
        /\ Constructed(size, seed)
        /\ hidden \in BOOLEAN
        /\ PageLoaded(MaxOptions)

(***************************************************************************)
(* Spec: every handler, in any order, for the first MaxTime ticks.         *)
(***************************************************************************)
Next ==
    \/ Frame /\ (isRunning => time < MaxTime) /\ UNCHANGED pageVars
    \/ VisibilityChange /\ (hidden => time < MaxTime /\ pending < MaxPending)
                        /\ UNCHANGED pageVars
    \/ Resize /\ UNCHANGED pageVars
    \/ MouseMove /\ UNCHANGED pageVars
    \/ Destroy /\ UNCHANGED pageVars

Spec == Init /\ [][Next]_vars

(***************************************************************************)
(* SpecRun: the loop left running for MaxRunTime ticks, the pointer moved  *)
(* during the first MaxMoveTime of them.                                   *)
(***************************************************************************)
NextRun ==
    \/ Frame /\ time < MaxRunTime /\ UNCHANGED pageVars
    \/ MouseMove /\ time <= MaxMoveTime /\ UNCHANGED pageVars

SpecRun == Init /\ [][NextRun]_vars

(***************************************************************************)
(* SpecLive: Spec with the frame scheduler's guarantee that a queued        *)
(* callback is run (requestAnimationFrame runs every callback it accepted). *)
(* The fairness condition is on FrameStep, what a Frame step does to the    *)
(* loop's variables; no other step of Next is a FrameStep.                  *)
(***************************************************************************)
loopVars == <<time, pending, isRunning, hidden>>

FrameStep ==
    /\ pending > 0
    /\ isRunning => time < MaxTime
    /\ UNCHANGED <<isRunning, hidden>>
    /\ time' = IF isRunning THEN time + 1 ELSE time
    /\ pending' = IF isRunning THEN pending ELSE pending - 1

SpecLive ==
    Init /\ [][Next]_vars /\ WF_loopVars(FrameStep)

(***************************************************************************)
(* The page's specifications start from one construction of the animation, *)
(* which their steps leave alone.                                          *)
(***************************************************************************)
InitPage == Constructed(<<400, 300>>, 1) /\ hidden = FALSE /\ PageLoaded(MaxOptions)

(***************************************************************************)
(* SpecSignup: the signup form.  At most MaxErrors listeners of             *)
(* showFormError wait for an 'input' event.                                *)
(***************************************************************************)
SettleSignupStep ==
    \E ok \in BOOLEAN :
        SettleSignup(ok) /\ (ok \/ Cardinality(inputListeners) < MaxErrors)

NextSignup ==
    \/ \E v \in EmailInputs : InputEvent(v)
    \/ SubmitSignup /\ Cardinality(inputListeners) < MaxErrors
    \/ SettleSignupStep

SpecSignup == InitPage /\ [][NextSignup]_vars

(***************************************************************************)
(* SpecPoll: the poll form.                                                *)
(***************************************************************************)
SettlePollStep == \E ok \in BOOLEAN : SettlePoll(ok)

NextPoll ==
    \/ \E i \in 0..(optionCount - 1) : ClickOption(i)
    \/ \E v \in PollEmails : InputPollEmail(v)
    \/ SubmitPoll
    \/ SettlePollStep

SpecPoll == InitPage /\ [][NextPoll]_vars

(***************************************************************************)
(* SpecFormsLive: both forms on the page, the user typing an empty or a    *)
(* well-formed address and clicking the first option, with the timer of    *)
(* simulateApiCall (setTimeout, line 262) firing.                          *)
(***************************************************************************)
NextForms ==
    \/ \E v \in {<<>>, <<"a", "@", "b", ".", "c">>} : InputEvent(v)
    \/ SubmitSignup /\ Cardinality(inputListeners) < MaxErrors
    \/ SettleSignupStep
    \/ ClickOption(0)
    \/ SubmitPoll
    \/ SettlePollStep

SpecFormsLive ==
    /\ InitPage
    /\ [][NextForms]_vars
    /\ WF_vars(SettleSignupStep)
    /\ WF_vars(SettlePollStep)

(***************************************************************************)
(* SpecKeys: the keyboard navigation of a group of 1..MaxOptions options.  *)
(***************************************************************************)
InitKeys ==
    /\ Constructed(<<400, 300>>, 1)
    /\ hidden = FALSE
    /\ \E n \in 1..MaxOptions : PageLoaded(n)

NextKeys ==
    \/ \E key \in Keys : KeyDown(key)
    \/ \E i \in 0..(optionCount - 1) : FocusOption(i)

SpecKeys == InitKeys /\ [][NextKeys]_vars

(***************************************************************************)
(* SpecReveal: the scroll reveal of NumElements elements; a callback       *)
(* reports any observed targets.                                           *)
(***************************************************************************)
NextReveal ==
    \E targets \in SUBSET observed :
        \E entries \in [targets -> BOOLEAN] : ObserverCallback(entries)

SpecReveal == InitPage /\ [][NextReveal]_vars

(***************************************************************************)
(* Properties.                                                             *)
(***************************************************************************)
\* the step runs update(): a frame callback while running, or a resume
TickStep == (isRunning /\ Frame) \/ (hidden /\ VisibilityChange)

\* sq is an element set as createSquares() leaves it on a surface of w x h
FreshSet(sq, w, h) ==
    \E seed \in Seeds, size \in Sizes :
        /\ w = size[1] * PxUnits
        /\ h = size[2] * PxUnits
        /\ sq = Created[seed, size]

\* C1: once destroy() has been called, no update tick runs (the counter
\* stands still) and no frame request is issued (the queue does not grow),
\* whatever happens later.
C1_ShutdownPermanent ==
    [][destroyed => (time' = time /\ pending' <= pending)]_vars

\* C2: in every reachable state at most one frame request is outstanding.
C2_OneRequestOutstanding == pending <= 1

\* C3: for every element the base position lies within
\* [-size, width + size] x [-size, height + size] at the end of every tick.
C3_BaseWithinPaddedBounds ==
    \A i \in 1..Len(squares) :
        /\ 0 - squares[i].size <= squares[i].baseX
        /\ squares[i].baseX <= width + squares[i].size
        /\ 0 - squares[i].size <= squares[i].baseY
        /\ squares[i].baseY <= height + squares[i].size

\* C4: for every element the fold phase is in [0, 2 pi) at creation and at
\* the end of every tick.
C4_FoldPhaseHalfOpen ==
    \A i \in 1..Len(squares) :
        0 <= squares[i].foldState /\ squares[i].foldState < TwoPi

\* C5: the frame counter is never reset or skipped: a step that runs update()
\* (a frame callback while running, a resume) adds exactly 1 to it, and every
\* other step (pause, resize, pointer move, destroy, a callback while paused)
\* leaves it as it was, so a resume continues from the value at the pause.
C5_CounterContinues ==
    [][IF TickStep THEN time' = time + 1 ELSE time' = time]_vars

\* C5 witness: a resume (the second request shows it) has run its tick and the
\* counter went on from its value.
C5_Witness ==
    isRunning /\ ~hidden /\ ~destroyed /\ pending = 2 /\ time = 2

\* C6: while the engine is paused nothing advances: a step taken with
\* isRunning false before and after it leaves the counter alone, queues no
\* frame request, and changes the element set only by a regeneration; a
\* frame callback that fires (the queue shrinks) takes exactly its own
\* request off the queue and changes no element.
C6_PausedChangesNothing ==
    [][(~isRunning /\ ~isRunning') =>
          /\ time' = time
          /\ pending' <= pending
          /\ (squares' = squares \/ FreshSet(squares', width', height'))
          /\ (pending' # pending => (pending' = pending - 1 /\ squares' = squares))
      ]_vars

\* C6 witness: paused by visibility, the queued callback has fired and has
\* issued no new request.
C6_Witness ==
    ~isRunning /\ hidden /\ ~destroyed /\ pending = 0 /\ time = 1

\* C7: the element set always holds exactly numSquares = 40 elements with
\* layer in {0, 1, 2}, in ascending layer order: after every regeneration
\* and after any number of ticks.
C7_CountAndLayerOrder ==
    /\ Len(squares) = numSquares
    /\ \A i \in 1..Len(squares) : squares[i].layer \in {0, 1, 2}
    /\ \A i \in 1..(Len(squares) - 1) : squares[i].layer <= squares[i + 1].layer

\* C7 witness: a set regenerated by a resize has been through a tick, and it
\* holds elements of all three layers.
C7_Witness ==
    /\ time = 2
    /\ \E seed \in Seeds, size \in Sizes :
          /\ width = size[1] * PxUnits
          /\ height = size[2] * PxUnits
          /\ squares = update(Created[seed, size], 2, mouseX, mouseY, width, height)
    /\ {squares[i].layer : i \in 1..Len(squares)} = {0, 1, 2}

\* C8: a step that re-measures the surface, or replaces elements without a
\* tick, is a full regeneration and nothing else: the new set is a freshly
\* created one for the new size (base and displayed positions inside
\* [0, width] x [0, height], fold phase below 1, nothing taken from the old
\* set), and the counter, the pointer, the running flag and the queued frame
\* requests are unchanged.
C8_ResizeOnlyRegenerates ==
    [][(width' # width \/ height' # height \/ (time' = time /\ squares' # squares)) =>
          /\ FreshSet(squares', width', height')
          /\ \A i \in 1..Len(squares') :
                /\ 0 <= squares'[i].baseX /\ squares'[i].baseX <= width'
                /\ 0 <= squares'[i].baseY /\ squares'[i].baseY <= height'
                /\ 0 <= squares'[i].x /\ squares'[i].x <= width'
                /\ 0 <= squares'[i].y /\ squares'[i].y <= height'
                /\ 0 <= squares'[i].foldState /\ squares'[i].foldState < 1000
          /\ UNCHANGED <<time, mouseX, mouseY, isRunning, pending>>
      ]_vars

\* C8 witness: a resize after destroy() has regenerated the set and the loop
\* has not restarted.
C8_Witness ==
    /\ destroyed /\ ~isRunning /\ pending = 0
    /\ FreshSet(squares, width, height)

\* b1 is base coordinate b moved by the drift d alone, wrapped if it left the
\* padded bounds
DriftOnly(b1, b, d, size, dim) ==
    \/ b1 = b + d
    \/ (b + d < 0 - size /\ b1 = dim + size)
    \/ (b + d > dim + size /\ b1 = 0 - size)

\* C9: in every tick, an element whose displayed position is 150 px or more
\* from the pointer gets no repulsion: its base position changes by the drift
\* term only, apart from a wrap teleport.
C9_NoRepulsionBeyondRadius ==
    [][time' = time + 1 =>
          \A i \in 1..Len(squares) :
              Dist(mouseX - squares'[i].x, mouseY - squares'[i].y) >= Radius * PxUnits =>
                  /\ DriftOnly(squares'[i].baseX, squares[i].baseX,
                               DriftX(time', i - 1), squares[i].size, width)
                  /\ DriftOnly(squares'[i].baseY, squares[i].baseY,
                               DriftY(time', i - 1), squares[i].size, height)
      ]_vars

\* C9 witness: a tick has run with the pointer moved off the origin, some
\* elements within the radius and some at or beyond it.
C9_Witness ==
    /\ time = 2
    /\ mouseX > 0
    /\ \E i \in 1..Len(squares) :
          Dist(mouseX - squares[i].x, mouseY - squares[i].y) >= Radius * PxUnits
    /\ \E i \in 1..Len(squares) :
          InRange(Dist(mouseX - squares[i].x, mouseY - squares[i].y))

\* C10: at the end of every tick each element's displayed position equals its
\* base position as updated in that tick plus that tick's oscillation offset.
C10_DisplayedFromUpdatedBase ==
    [][time' = time + 1 =>
          \A i \in 1..Len(squares) :
              /\ squares'[i].x = squares'[i].baseX + OscX(squares'[i], time')
              /\ squares'[i].y = squares'[i].baseY + OscY(squares'[i], time')
      ]_vars

\* the parameters createSquares() fixes for an element
Static(sq) ==
    <<sq.size, sq.color, sq.opacity, sq.speedX, sq.speedY, sq.amplitudeX,
      sq.amplitudeY, sq.phaseX, sq.phaseY, sq.rotationSpeed, sq.foldSpeed, sq.layer>>

\* C11: between two regenerations no step (tick, pointer move, pause, resume,
\* destroy) changes the number of elements or a static parameter of one:
\* size, color, opacity, speedX/Y, amplitudeX/Y, phaseX/Y, rotationSpeed,
\* foldSpeed, layer.
C11_StaticParametersKept ==
    [][Resize \/ (/\ Len(squares') = Len(squares)
                  /\ \A i \in 1..Len(squares) :
                        Static(squares'[i]) = Static(squares[i]))]_vars

\* C11 witness: after a pointer move, a tick and destroy(), the elements have
\* the static parameters they were created with and some base has moved.
C11_Witness ==
    /\ destroyed /\ time = 2 /\ mouseX > 0
    /\ \E seed \in Seeds, size \in Sizes :
          /\ \A i \in 1..Len(squares) :
                Static(squares[i]) = Static(Created[seed, size][i])
          /\ \E i \in 1..Len(squares) :
                squares[i].baseX # Created[seed, size][i].baseX

\* C12: in every tick, an element whose displayed position is exactly at the
\* pointer (distance 0) gets no repulsion and no division by the distance:
\* its base position changes by the drift term only, apart from a wrap
\* teleport.
C12_NoRepulsionAtDistanceZero ==
    [][time' = time + 1 =>
          \A i \in 1..Len(squares) :
              (mouseX = squares'[i].x /\ mouseY = squares'[i].y) =>
                  /\ DriftOnly(squares'[i].baseX, squares[i].baseX,
                               DriftX(time', i - 1), squares[i].size, width)
                  /\ DriftOnly(squares'[i].baseY, squares[i].baseY,
                               DriftY(time', i - 1), squares[i].size, height)
      ]_vars

\* C12 witness: a tick has run with the pointer exactly on the first
\* element's displayed position.
C12_Witness ==
    /\ time = 2 /\ isRunning
    /\ mouseX = squares[1].x /\ mouseY = squares[1].y
    /\ Dist(mouseX - squares[1].x, mouseY - squares[1].y) = 0

\* C13: the loop never stalls while running: whenever isRunning is true a
\* frame request is outstanding, and, the scheduler running queued callbacks,
\* a running engine's counter goes on to increase (or the engine is paused or
\* destroyed first).
C13_LoopNeverStalls ==
    /\ [](isRunning => pending >= 1)
    /\ \A t \in 1..(MaxTime - 1) :
          (isRunning /\ time = t) ~> (~isRunning \/ time > t)

\* C13 witness: a running engine with its request queued after a tick.
C13_Witness ==
    isRunning /\ ~hidden /\ ~destroyed /\ pending = 1 /\ time = 2

\* a form's submit button and pending calls agree: at most one call is
\* pending, the button is disabled exactly while one is, and an enabled
\* button carries the label of the page's markup
ButtonFollowsCall(btn, calls, text) ==
    /\ Len(calls) <= 1
    /\ btn.disabled <=> Len(calls) = 1
    /\ ~btn.disabled => btn.textContent = text

\* C14: on the signup and the poll form the submit button is disabled from
\* the start of the API call until it settles and is then enabled again with
\* its original label, whether the call resolved or rejected; a disabled
\* button blocking submission, at most one call per form is pending at any
\* time, and no button stays disabled forever.
C14_ButtonDisabledWhilePending ==
    /\ [](/\ ButtonFollowsCall(signupBtn, signupCalls, SignupText)
          /\ ButtonFollowsCall(pollBtn, pollCalls, PollText))
    /\ signupBtn.disabled ~> ~signupBtn.disabled
    /\ pollBtn.disabled ~> ~pollBtn.disabled

\* C14 witness: a signup call has rejected and a poll call has resolved, and
\* both buttons are enabled with their labels.
C14_Witness ==
    /\ formErrors # <<>>
    /\ formErrors[1].text = "Something went wrong. Please try again."
    /\ signupBtn = [disabled |-> FALSE, textContent |-> SignupText]
    /\ pollContent = "success"
    /\ pollBtn = [disabled |-> FALSE, textContent |-> PollText]

\* s without its leading and trailing spaces
Stripped(s) ==
    LET at == {k \in 1..Len(s) : s[k] # " "}
    IN  IF at = {} THEN <<>>
        ELSE SubSeq(s, CHOOSE k \in at : \A m \in at : k <= m,
                       CHOOSE k \in at : \A m \in at : k >= m)

\* s is characters other than space and @, an @, such characters, a dot,
\* such characters
WellFormed(s) ==
    \E i, j \in 1..Len(s) :
        /\ 1 < i /\ i + 1 < j /\ j < Len(s)
        /\ s[i] = "@" /\ s[j] = "."
        /\ \A k \in 1..Len(s) \ {i} : s[k] # " " /\ s[k] # "@"

\* C15: a signup submission whose trimmed email is not of the form
\* characters, @, characters, dot, characters starts no API call, shows the
\* validation error on the field, and leaves the button enabled with its
\* label, the form's content and the field's value as they were.
C15_InvalidEmailStartsNoCall ==
    [][(SubmitSignup /\ ~WellFormed(Stripped(emailValue))) =>
          /\ signupCalls' = <<>>
          /\ signupBtn' = signupBtn
          /\ ~signupBtn'.disabled
          /\ signupContent' = "form"
          /\ emailValue' = emailValue
          /\ borderColor' = "#f92672"
          /\ \E k \in 1..Len(formErrors') :
                formErrors'[k].text = "Please enter a valid email address"
      ]_vars

\* C15 witness: "a@b" has been submitted: the error is shown, no call is
\* pending and the form is as it was.
C15_Witness ==
    /\ emailValue = <<"a", "@", "b">>
    /\ formErrors # <<>>
    /\ formErrors[1].text = "Please enter a valid email address"
    /\ signupCalls = <<>>
    /\ ~signupBtn.disabled
    /\ signupContent = "form"

\* C16: a poll submission with no feature selected starts no API call and
\* leaves the button and the form as they were; a call is started only with
\* at least one feature selected, and carries the selected features and the
\* email, null when the email field is empty.
C16_PollNeedsFeature ==
    [][/\ (SubmitPoll /\ checked = {}) =>
              /\ pollCalls' = pollCalls
              /\ pollBtn' = pollBtn
              /\ ~pollBtn'.disabled
              /\ pollContent' = "form"
              /\ checked' = checked
              /\ pollEmail' = pollEmail
       /\ Len(pollCalls') > Len(pollCalls) =>
              /\ checked # {}
              /\ pollCalls'[Len(pollCalls')].features = checked
              /\ pollCalls'[Len(pollCalls')].email =
                    IF Len(pollEmail) = 0 THEN Null ELSE pollEmail
      ]_vars

\* C16 witness: after a submission without features was refused, a call is
\* pending with features and a null email.
C16_Witness ==
    /\ lastAlert = "Please select at least one feature before submitting."
    /\ pollCalls # <<>>
    /\ pollCalls[1].features # {}
    /\ pollCalls[1].email = Null

\* C17: the email field's parent never holds more than one .form-error
\* element, and an 'input' event leaves no error element, no border colour
\* and no registered listener, however many listeners were registered.
C17_OneErrorClearedByInput ==
    [][/\ Len(formErrors') <= 1
       /\ (\E v \in EmailInputs : InputEvent(v)) =>
              /\ formErrors' = <<>>
              /\ borderColor' = ""
              /\ inputListeners' = {}
      ]_vars

\* C17 witness: an 'input' event has run two or more listeners and no error
\* is displayed.
C17_Witness ==
    cleared >= 2 /\ formErrors = <<>> /\ borderColor = ""

\* S with i's membership flipped
Flip(S, i) == IF i \in S THEN S \ {i} ELSE S \cup {i}

\* C18: the last key press on an option at index i of n did this: ArrowDown
\* moved the focus to (i + 1) mod n and ArrowUp to (i - 1) mod n, changing
\* no checkbox; Space or Enter flipped the checkbox of option i only and
\* kept the focus.  ArrowDown then ArrowUp returns the focus to where it
\* was, and two presses of Space or Enter restore the checkboxes.
C18_CyclicNavigation ==
    /\ trail # <<>> =>
          LET last == trail[Len(trail)]
          IN  /\ last.key = "ArrowDown" =>
                    /\ focus = (last.index + 1) % optionCount
                    /\ checked = last.checked
              /\ last.key = "ArrowUp" =>
                    /\ focus = (last.index - 1) % optionCount
                    /\ checked = last.checked
              /\ last.key \in {" ", "Enter"} =>
                    /\ focus = last.index
                    /\ checked = Flip(last.checked, last.index)
    /\ Len(trail) = 2 =>
          /\ (trail[1].key = "ArrowDown" /\ trail[2].key = "ArrowUp") =>
                focus = trail[1].index
          /\ (trail[1].key \in {" ", "Enter"} /\ trail[2].key \in {" ", "Enter"}) =>
                checked = trail[1].checked /\ focus = trail[1].index

\* C18 witness: in a group of three options ArrowUp on the first option has
\* moved the focus to the last, after an ArrowDown from the last.
C18_Witness ==
    /\ optionCount = 3
    /\ Len(trail) = 2
    /\ trail[1].key = "ArrowDown" /\ trail[1].index = 2
    /\ trail[2].key = "ArrowUp" /\ trail[2].index = 0
    /\ focus = 2

\* C19: an element has the class animate-in exactly when the observer has
\* reported it intersecting, from the first such report on; it is then no
\* longer observed, so no later callback is given it; an element never
\* reported intersecting is still hidden and observed.
C19_RevealOnceAndForGood ==
    \A e \in Elements :
        /\ e \in animateIn <=> reported[e] = "intersecting"
        /\ e \in animateIn <=> e \notin observed

\* C19 witness: one element has been revealed and is not observed while
\* another, reported only as not intersecting, is hidden and observed.
C19_Witness ==
    \E e1, e2 \in Elements :
        /\ reported[e1] = "intersecting" /\ e1 \in animateIn /\ e1 \notin observed
        /\ reported[e2] = "away" /\ e2 \notin animateIn /\ e2 \in observed

====
